---- MODULE Spec2Model ----
(***************************************************************************)
(* The Riemannian Staircase of SE-Sync (SESync.cpp): the controller        *)
(* SESync() and the saddle escape escape_saddle().                         *)
(*                                                                         *)
(* The problem object, the trust-region solver TNT and the minimum         *)
(* eigenvalue routine are external: every value they return is drawn from  *)
(* a small set.  A matrix is a record that names where it came from, its   *)
(* number of rows, its objective value f and its Riemannian gradient norm  *)
(* g (both are functions of the point, so they travel with it).            *)
(*                                                                         *)
(* Numbers.  lambda_min and min_eig_num_tol are integers in one common     *)
(* unit.  Gradient norms and grad_norm_tol are integers in units of 5e-9,  *)
(* so that 2 * 100 * grad_norm_tol, measured in units of alpha_min = 1e-6, *)
(* is the integer grad_norm_tol itself; a step length is the exact         *)
(* fraction num/den in units of alpha_min (den = 0: the IEEE results of a  *)
(* division by zero, +inf when num > 0 and NaN when num = 0).              *)
(*                                                                         *)
(* unsigned int.  A 32-bit unsigned value u is held as its two's           *)
(* complement reading: u itself when u < 2^31, u - 2^32 otherwise, so      *)
(* 4294967295 is -1 and u + 1 wraps from -1 to 0 as the machine does.      *)
(* Only values within a few steps of 0 and of 2^32 - 1 are ever reached.   *)
(***************************************************************************)
EXTENDS Integers, Sequences, FiniteSets, TLC

VARIABLES options, Y0, pc, r, Y, Yplus, problem, SESyncResults, esc, hist, twin

vars == <<options, Y0, pc, r, Y, Yplus, problem, SESyncResults, esc, hist, twin>>

----------------------------------------------------------------------------
(* Bounds of the model *)

\* the small values of r0 and rmax are 1..MaxRank
MaxRank == 2
\* no more than MaxSolves solver invocations are explored in one run
MaxSolves == 2
\* objective values are 0..MaxObjective
MaxObjective == 2
\* no more than MaxTrials line-search trials are explored in one escape
MaxTrials == 2

----------------------------------------------------------------------------
(* unsigned int arithmetic *)

\* the largest unsigned int, 2^32 - 1
UIntMax == -1

\* a <= b on unsigned int
ULe(a, b) == IF (a >= 0) = (b >= 0) THEN a <= b ELSE a >= 0

\* r + 1 and r++ on unsigned int (wraps from UIntMax to 0)
UInc(a) == a + 1

\* r - 1 on unsigned int (wraps from 0 to UIntMax)
UDec(a) == a - 1

----------------------------------------------------------------------------
(* Values *)

\* the levels r0 and rmax are drawn from: small ones
SmallRanks == 1..MaxRank

\* ... and the largest unsigned int beside them
Ranks == SmallRanks \cup {UIntMax}

FVals == 0..MaxObjective

\* gradient norms that matter against the tolerance: the boundary and above
GVals(tol) == {tol, tol + 1}

LambdaVals == -2..1

\* eigenvectors; 0 is the empty (default-constructed) Vector
VVals == {1, 2}

GradTols == {0, 2, 3}

EigTols == {0, 1}

Matrix(kind, rows, f, g, at, k) ==
    [kind |-> kind, rows |-> rows, f |-> f, g |-> g, at |-> at, k |-> k]

\* a default-constructed Matrix (size() = 0)
EmptyMatrix == Matrix("empty", 0, 0, 0, 0, 0)

evaluate_objective(M) == M.f

Riemannian_gradient_norm(M) == M.g

Statuses == {"GLOBAL_OPT", "EIG_IMPRECISION", "SADDLE_POINT", "RS_ITER_LIMIT"}

----------------------------------------------------------------------------
(* Step lengths of escape_saddle *)

Abs(x) == IF x < 0 THEN -x ELSE x

\* alpha = 2 * 100 * gradient_tolerance / fabs(lambda_min), in units of 1e-6
InitialAlpha(gradient_tolerance, lambda_min) ==
    [num |-> gradient_tolerance, den |-> Abs(lambda_min)]

\* alpha /= 2  (+inf and NaN are unchanged by it)
Halve(alpha) == [alpha EXCEPT !.den = 2 * alpha.den]

\* alpha > alpha_min, alpha_min = 1e-6  (+inf > alpha_min, NaN > alpha_min is false)
AtOrAboveAlphaMin(alpha) ==
    IF alpha.den = 0 THEN alpha.num > 0 ELSE alpha.num >= alpha.den

AboveAlphaMin(alpha) ==
    IF alpha.den = 0 THEN alpha.num > 0 ELSE alpha.num > alpha.den

----------------------------------------------------------------------------
(* Initial state: the options and Y0 SESync() is called with, the problem  *)
(* constructed and set to rank r0, the results struct with its status      *)
(* preset.  Spec calls SESync() with small levels, SpecUInt with levels at *)
(* the top of unsigned int too, where r + 1 wraps.                         *)

NoEscape ==
    [FY |-> 0, alpha |-> [num |-> 0, den |-> 1], Ytest |-> EmptyMatrix,
     escape_success |-> FALSE, ntrials |-> 0, trials |-> <<>>, steps |-> <<>>]

\* no second invocation of escape_saddle
NoTwin == [ret |-> "none", esc |-> NoEscape, Yplus |-> EmptyMatrix]

\* line 25: SESyncResults.status = RS_ITER_LIMIT
InitialStatusPresetGlobalOpt == "GLOBAL_OPT"
InitialStatus == "RS_ITER_LIMIT"

InitialResults ==
    [status |-> InitialStatus, Yopt |-> EmptyMatrix, SDPval |-> 0, gradnorm |-> 0,
     lambda_min |-> 0, v_min |-> 0,
     function_values |-> 0, gradient_norms |-> 0, elapsed_optimization_times |-> 0,
     minimum_eigenvalues |-> 0, minimum_eigenvalue_computation_times |-> 0,
     xhat |-> EmptyMatrix]

\* what has happened so far in the run (history, not program state)
InitialHist ==
    [init |-> "none", chordal_calls |-> 0, random_calls |-> 0, nsolves |-> 0, neigs |-> 0, nescapes |-> 0, nrounds |-> 0,
     rank_writes |-> 0, solve_ranks |-> <<>>, solve_problem_ranks |-> <<>>,
     lastTNT |-> EmptyMatrix,
     lastEig |-> [conv |-> FALSE, lambda |-> 0, v |-> 0, r |-> 0, arg |-> EmptyMatrix],
     eigSnap |-> [nsolves |-> 0, nescapes |-> 0, rank |-> 0, r |-> 0],
     eigFail |-> [happened |-> FALSE, neigs |-> 0, nsolves |-> 0, nescapes |-> 0,
                  rank |-> 0, r |-> 0],
     escArgs |-> [Y |-> EmptyMatrix, lambda |-> 0, v |-> 0, r |-> 0, ret |-> "none"],
     escSnap |-> [nsolves |-> 0, neigs |-> 0, nescapes |-> 0, Y |-> EmptyMatrix],
     escapes_at |-> <<>>, esc_success_at |-> <<>>,
     roundArg |-> EmptyMatrix, roundStatus |-> "none", roundRank |-> 0]

Called(Levels) ==
    /\ options \in [r0 : Levels, rmax : Levels, min_eig_num_tol : EigTols,
                    grad_norm_tol : GradTols,
                    use_chordal_initialization : BOOLEAN]
    /\ Y0 \in {EmptyMatrix,
               Matrix("Y0", options.r0, MaxObjective, options.grad_norm_tol, 0, 0)}
    /\ pc = "INITIALIZATION"
    /\ r = options.r0
    /\ Y = EmptyMatrix
    /\ Yplus = EmptyMatrix
    /\ problem = [relaxation_rank |-> options.r0]
    /\ SESyncResults = InitialResults
    /\ esc = NoEscape
    /\ hist = InitialHist
    /\ twin = NoTwin

Init == Called(SmallRanks)

\* the same with r0 and rmax at the top of unsigned int as well
InitUInt == Called(Ranks)

----------------------------------------------------------------------------
(* SESync(), lines 209-234: the initial iterate.  A non-empty Y0 is used   *)
(* as it is; otherwise the problem computes a chordal initialization or a  *)
(* random sample at its current rank.  The solver may return a point of    *)
(* any value whatever its seed, so the first seed is given the largest     *)
(* objective value.                                                        *)

\* the flag looked at before Y0
InitialIterateFlagFirst ==
    IF options.use_chordal_initialization
    THEN Matrix("chordal", problem.relaxation_rank, MaxObjective,
                options.grad_norm_tol, 0, 0)
    ELSE IF Y0.kind # "empty" THEN Y0
         ELSE Matrix("random", problem.relaxation_rank, MaxObjective,
                     options.grad_norm_tol, 0, 0)

InitialIterate ==
    IF Y0.kind # "empty" THEN Y0
    ELSE IF options.use_chordal_initialization
         THEN Matrix("chordal", problem.relaxation_rank, MaxObjective,
                     options.grad_norm_tol, 0, 0)
         ELSE Matrix("random", problem.relaxation_rank, MaxObjective,
                     options.grad_norm_tol, 0, 0)

Initialization ==
    /\ pc = "INITIALIZATION"
    /\ Y' = InitialIterate
    /\ hist' = [hist EXCEPT
           !.init = InitialIterate.kind,
           !.chordal_calls = @ + (IF InitialIterate.kind = "chordal" THEN 1 ELSE 0),
           !.random_calls = @ + (IF InitialIterate.kind = "random" THEN 1 ELSE 0)]
    /\ r' = options.r0
    /\ pc' = "STAIRCASE"
    /\ UNCHANGED <<options, Y0, Yplus, problem, SESyncResults, esc, twin>>

(* line 262: the loop condition r <= options.rmax, on unsigned int *)

LoopCondition == ULe(r, options.rmax)

StaircaseTest ==
    /\ pc = "STAIRCASE"
    /\ pc' = IF LoopCondition THEN "TNT" ELSE "ROUND"
    /\ UNCHANGED <<options, Y0, r, Y, Yplus, problem, SESyncResults, esc, hist, twin>>

(* lines 277-295: one invocation of the trust-region solver, seeded with   *)
(* Y, and the extraction of its results.  The solver returns a point of    *)
(* the shape of its seed, with any objective value; no step reads its      *)
(* gradient norm, which is taken at the tolerance the solver stops at.     *)

TNTOutputs ==
    {Matrix("TNT", Y.rows, f, options.grad_norm_tol, hist.nsolves + 1, 0) :
        f \in FVals}

ExtractResults(x) ==
    [SESyncResults EXCEPT
        !.Yopt = x,
        !.SDPval = evaluate_objective(x),
        !.gradnorm = Riemannian_gradient_norm(x),
        !.function_values = @ + 1,
        !.gradient_norms = @ + 1,
        !.elapsed_optimization_times = @ + 1]

RunTNTReturning(Outputs) ==
    /\ pc = "TNT"
    /\ hist.nsolves < MaxSolves
    /\ \E x \in Outputs :
         /\ SESyncResults' = ExtractResults(x)
         /\ hist' = [hist EXCEPT
                !.nsolves = @ + 1,
                !.solve_ranks = Append(@, r),
                !.solve_problem_ranks = Append(@, problem.relaxation_rank),
                !.lastTNT = x]
    /\ pc' = "MIN_EIG"
    /\ UNCHANGED <<options, Y0, r, Y, Yplus, problem, esc, twin>>

RunTNT == RunTNTReturning(TNTOutputs)

\* a solver that is a descent method: it never returns a point whose
\* objective value is above that of its seed
DescentTNTOutputs ==
    {x \in TNTOutputs : evaluate_objective(x) <= evaluate_objective(Y)}

RunDescentTNT == RunTNTReturning(DescentTNTOutputs)

(* lines 312-343: the minimum eigenvalue computation on Yopt and the test  *)
(* of its result.  The routine writes lambda_min and v_min and reports     *)
(* whether it converged.                                                   *)

EigRecorded(conv, lambda, v) ==
    [hist EXCEPT
        !.neigs = @ + 1,
        !.lastEig = [conv |-> conv, lambda |-> lambda, v |-> v, r |-> r,
                     arg |-> SESyncResults.Yopt],
        !.eigSnap = [nsolves |-> hist.nsolves, nescapes |-> hist.nescapes,
                     rank |-> problem.relaxation_rank, r |-> r],
        !.eigFail = IF conv \/ hist.eigFail.happened THEN @
                    ELSE [happened |-> TRUE, neigs |-> hist.neigs + 1,
                          nsolves |-> hist.nsolves, nescapes |-> hist.nescapes,
                          rank |-> problem.relaxation_rank, r |-> r]]

\* lines 328-331
RecordNoEigenvalue(res) == res

RecordEigenvalue(res) ==
    [res EXCEPT !.minimum_eigenvalues = @ + 1,
                !.minimum_eigenvalue_computation_times = @ + 1]

\* line 334: SESyncResults.lambda_min > -options.min_eig_num_tol
NonnegativeEigenvalueNotStrict(lambda_min) == lambda_min >= -options.min_eig_num_tol
NonnegativeEigenvalue(lambda_min) == lambda_min > -options.min_eig_num_tol

\* line 325: break
EigFailureExitRetry == "STAIRCASE"
EigFailureExit == "ROUND"

\* line 342: break
GlobalOptExit == "ROUND"

\* line 373: break
EscapeFailureExitNoBreak == "STAIRCASE"
EscapeFailureExit == "ROUND"

\* lines 320-326
EigenvalueNotConverged ==
    /\ pc = "MIN_EIG"
    /\ \E lambda \in LambdaVals, v \in VVals :
         /\ SESyncResults' = [SESyncResults EXCEPT
                !.lambda_min = lambda, !.v_min = v, !.status = "EIG_IMPRECISION"]
         /\ hist' = EigRecorded(FALSE, lambda, v)
    /\ pc' = EigFailureExit
    /\ UNCHANGED <<options, Y0, r, Y, Yplus, problem, esc, twin>>

\* lines 328-343
GlobalOptimum ==
    /\ pc = "MIN_EIG"
    /\ \E lambda \in LambdaVals, v \in VVals :
         /\ NonnegativeEigenvalue(lambda)
         /\ SESyncResults' = [RecordEigenvalue(SESyncResults) EXCEPT
                !.lambda_min = lambda, !.v_min = v, !.status = "GLOBAL_OPT"]
         /\ hist' = EigRecorded(TRUE, lambda, v)
    /\ pc' = GlobalOptExit
    /\ UNCHANGED <<options, Y0, r, Y, Yplus, problem, esc, twin>>

(* lines 344-363 and 466-489: a saddle.  The problem's rank is raised to   *)
(* r + 1, Yplus is declared, and escape_saddle is entered: it reads the    *)
(* problem's rank, builds Y_augmented and Ydot and the first step length.  *)
(* Y_augmented.topRows(rank - 1) = Y is a block of rank - 1 rows of a      *)
(* matrix of rank rows: when rank has wrapped to 0 the block lies outside  *)
(* the matrix and the behaviour is undefined (an assertion failure or an   *)
(* out-of-bounds write that aborts, or execution going on).                *)

NextRankUnchanged(rr) == rr

NextRank(rr) == UInc(rr)

BlockInRange(rank, Ym) == ULe(UDec(rank), rank) /\ Ym.rows = UDec(rank)

\* the same with the objective value of the seed of this level as FY
EscapeEnteredFromSeed(lambda) ==
    [FY |-> evaluate_objective(Y),
     alpha |-> InitialAlpha(options.grad_norm_tol, lambda),
     Ytest |-> EmptyMatrix, escape_success |-> FALSE, ntrials |-> 0,
     trials |-> <<>>, steps |-> <<>>]

\* the same with the step length held in a static local, kept between calls
EscapeEnteredStaticStep(lambda) ==
    [FY |-> evaluate_objective(SESyncResults.Yopt),
     alpha |-> IF esc.ntrials > 0 THEN esc.alpha
               ELSE InitialAlpha(options.grad_norm_tol, lambda),
     Ytest |-> EmptyMatrix, escape_success |-> FALSE, ntrials |-> 0,
     trials |-> <<>>, steps |-> <<>>]

EscapeEntered(lambda) ==
    [FY |-> evaluate_objective(SESyncResults.Yopt),
     alpha |-> InitialAlpha(options.grad_norm_tol, lambda),
     Ytest |-> EmptyMatrix, escape_success |-> FALSE, ntrials |-> 0,
     trials |-> <<>>, steps |-> <<>>]

SaddleDetected ==
    /\ pc = "MIN_EIG"
    /\ \E lambda \in LambdaVals, v \in VVals :
         /\ ~NonnegativeEigenvalue(lambda)
         /\ SESyncResults' = [RecordEigenvalue(SESyncResults) EXCEPT
                !.lambda_min = lambda, !.v_min = v]
         /\ problem' = [problem EXCEPT !.relaxation_rank = NextRank(r)]
         /\ esc' = EscapeEntered(lambda)
         /\ hist' = [EigRecorded(TRUE, lambda, v) EXCEPT
                !.nescapes = @ + 1,
                !.rank_writes = @ + 1,
                !.escapes_at = Append(@, r),
                !.escArgs = [Y |-> SESyncResults.Yopt, lambda |-> lambda, v |-> v,
                             r |-> r, ret |-> "running"],
                !.escSnap = [nsolves |-> hist.nsolves, neigs |-> hist.neigs + 1,
                             nescapes |-> hist.nescapes + 1, Y |-> Y]]
    /\ Yplus' = EmptyMatrix
    /\ \/ pc' = "LINE_SEARCH"
       \/ /\ ~BlockInRange(problem'.relaxation_rank, SESyncResults.Yopt)
          /\ pc' = "ABORTED"
    /\ UNCHANGED <<options, Y0, r, Y, twin>>

(* lines 492-507: one pass of the do-while loop of escape_saddle.  The     *)
(* trial point is the retraction of Y_augmented along alpha * Ydot: a      *)
(* point at the problem's rank with any objective value and gradient norm; *)
(* k numbers the trials of one escape, and trials lists the points tried   *)
(* so far (history: the code keeps the last one only).                     *)

TrialsAt(k) ==
    {Matrix("trial", problem.relaxation_rank, f, g, hist.nsolves, k) :
        f \in FVals, g \in GVals(options.grad_norm_tol)}

Trials == TrialsAt(esc.ntrials + 1)

\* line 505
AcceptedNotStrict(FY_test, FY, FY_test_gradnorm, gradient_tolerance) ==
    (FY_test <= FY) /\ (FY_test_gradnorm >= gradient_tolerance)

Accepted(FY_test, FY, FY_test_gradnorm, gradient_tolerance) ==
    (FY_test < FY) /\ (FY_test_gradnorm > gradient_tolerance)

\* line 507: the loop condition
KeepSearchingNoFloor(escape_success, alpha) == ~escape_success

KeepSearching(escape_success, alpha) == ~escape_success /\ AboveAlphaMin(alpha)

\* lines 492-506: the body of the loop, on the locals of one invocation
TrialStep(frame, Ytest) ==
    [frame EXCEPT
        !.alpha = Halve(frame.alpha),
        !.Ytest = Ytest,
        !.escape_success =
            @ \/ Accepted(evaluate_objective(Ytest), frame.FY,
                          Riemannian_gradient_norm(Ytest), options.grad_norm_tol),
        !.ntrials = @ + 1,
        !.trials = Append(@, Ytest),
        !.steps = Append(@, Halve(frame.alpha))]

LineSearchTrial ==
    /\ pc = "LINE_SEARCH"
    /\ esc.ntrials < MaxTrials
    /\ \E Ytest \in Trials :
         /\ esc' = TrialStep(esc, Ytest)
         /\ pc' = IF KeepSearching(esc'.escape_success, esc'.alpha)
                  THEN "LINE_SEARCH" ELSE "ESCAPE_RETURN"
    /\ UNCHANGED <<options, Y0, r, Y, Yplus, problem, SESyncResults, hist, twin>>

(* lines 508-516 and 365-376: escape_saddle returns and its locals are     *)
(* gone.  On success Yplus is the accepted trial, it becomes the next seed *)
(* and r++ runs; on failure the status is SADDLE_POINT and the loop is     *)
(* left.                                                                   *)

EscapeSucceeded ==
    /\ pc = "ESCAPE_RETURN"
    /\ esc.escape_success
    /\ Yplus' = esc.Ytest
    /\ Y' = esc.Ytest
    /\ r' = UInc(r)
    /\ esc' = NoEscape
    /\ hist' = [hist EXCEPT !.escArgs.ret = "true",
                             !.esc_success_at = Append(@, r)]
    /\ pc' = "STAIRCASE"
    /\ twin' = NoTwin
    /\ UNCHANGED <<options, Y0, problem, SESyncResults>>

EscapeFailed ==
    /\ pc = "ESCAPE_RETURN"
    /\ ~esc.escape_success
    /\ SESyncResults' = [SESyncResults EXCEPT !.status = "SADDLE_POINT"]
    /\ esc' = NoEscape
    /\ hist' = [hist EXCEPT !.escArgs.ret = "false"]
    /\ pc' = EscapeFailureExit
    /\ twin' = NoTwin
    /\ UNCHANGED <<options, Y0, r, Y, Yplus, problem>>

(* lines 452-517 a second time.  To compare two invocations, SpecTwin has  *)
(* escape_saddle called again on the arguments of line 361 once the first  *)
(* invocation has finished and before its result is used.  The problem is  *)
(* deterministic: retracting from the same point along the same direction  *)
(* by the same step gives the point it gave the first time.                *)

\* line 495 in the second invocation: problem.retract(Y_augmented, alpha * Ydot)
retract(k, alpha) ==
    IF k <= Len(esc.trials) /\ esc.steps[k] = alpha
    THEN {esc.trials[k]} ELSE TrialsAt(k)

SecondInvocation ==
    /\ pc = "ESCAPE_RETURN"
    /\ twin.ret = "none"
    /\ twin' = [ret |-> "running",
                esc |-> EscapeEntered(SESyncResults.lambda_min),
                Yplus |-> EmptyMatrix]
    /\ UNCHANGED <<options, Y0, pc, r, Y, Yplus, problem, SESyncResults, esc, hist>>

SecondSearching ==
    twin.esc.ntrials = 0 \/ KeepSearching(twin.esc.escape_success, twin.esc.alpha)

SecondTrial ==
    /\ pc = "ESCAPE_RETURN"
    /\ twin.ret = "running"
    /\ SecondSearching
    /\ twin.esc.ntrials < MaxTrials
    /\ \E Ytest \in retract(twin.esc.ntrials + 1, Halve(twin.esc.alpha)) :
         twin' = [twin EXCEPT !.esc = TrialStep(twin.esc, Ytest)]
    /\ UNCHANGED <<options, Y0, pc, r, Y, Yplus, problem, SESyncResults, esc, hist>>

SecondReturn ==
    /\ pc = "ESCAPE_RETURN"
    /\ twin.ret = "running"
    /\ ~SecondSearching
    /\ twin' = [twin EXCEPT
           !.ret = IF twin.esc.escape_success THEN "true" ELSE "false",
           !.Yplus = IF twin.esc.escape_success THEN twin.esc.Ytest ELSE @]
    /\ UNCHANGED <<options, Y0, pc, r, Y, Yplus, problem, SESyncResults, esc, hist>>

SecondReturned == twin.ret \in {"true", "false"}

(* lines 410-428 and 449: rounding of Yopt and the return of the results.  *)
(* The objective at the rounded solution (Fxhat) and the timings are       *)
(* values of external calls that no step reads; they are not held.         *)

round_solution(M) == [M EXCEPT !.kind = "rounded"]

RoundSolution ==
    /\ pc = "ROUND"
    /\ SESyncResults' = [SESyncResults EXCEPT
           !.xhat = round_solution(SESyncResults.Yopt)]
    /\ hist' = [hist EXCEPT
           !.nrounds = @ + 1,
           !.roundArg = SESyncResults.Yopt,
           !.roundStatus = SESyncResults.status,
           !.roundRank = problem.relaxation_rank]
    /\ pc' = "RETURNED"
    /\ UNCHANGED <<options, Y0, r, Y, Yplus, problem, esc, twin>>

----------------------------------------------------------------------------

Next ==
    \/ Initialization
    \/ StaircaseTest
    \/ RunTNT
    \/ EigenvalueNotConverged
    \/ GlobalOptimum
    \/ SaddleDetected
    \/ LineSearchTrial
    \/ EscapeSucceeded
    \/ EscapeFailed
    \/ RoundSolution

Spec == Init /\ [][Next]_vars

SpecUInt == InitUInt /\ [][Next]_vars

\* the same run with every escape_saddle invoked twice
NextTwin ==
    \/ Initialization
    \/ StaircaseTest
    \/ RunTNT
    \/ EigenvalueNotConverged
    \/ GlobalOptimum
    \/ SaddleDetected
    \/ LineSearchTrial
    \/ SecondInvocation
    \/ SecondTrial
    \/ SecondReturn
    \/ (SecondReturned /\ EscapeSucceeded)
    \/ (SecondReturned /\ EscapeFailed)
    \/ RoundSolution

SpecTwin == Init /\ [][NextTwin]_vars

\* every call returns: a loop pass that can be made is made
SpecFair == Spec /\ WF_vars(LineSearchTrial)

\* the same run with a solver that never increases the objective
NextDescent ==
    \/ Initialization
    \/ StaircaseTest
    \/ RunDescentTNT
    \/ EigenvalueNotConverged
    \/ GlobalOptimum
    \/ SaddleDetected
    \/ LineSearchTrial
    \/ EscapeSucceeded
    \/ EscapeFailed
    \/ RoundSolution

SpecDescent == Init /\ [][NextDescent]_vars

----------------------------------------------------------------------------
(* Properties *)

Eps == options.min_eig_num_tol

Finished == pc \in {"ROUND", "RETURNED"}

\* the most recent certificate computation converged
LastEigConverged == hist.neigs > 0 /\ hist.lastEig.conv

Occurrences(seq, x) == Cardinality({i \in DOMAIN seq : seq[i] = x})

(* C1: the returned status is GLOBAL_OPT exactly when the last certificate *)
(* computation of the run converged with lambda_min > -eps; and once a     *)
(* certificate at rank r has done so the loop is over at rank r: no escape *)
(* at r, the problem's rank as it was, no further solver call.             *)
C1_GlobalOptIffCertified ==
    LET certified == LastEigConverged /\ hist.lastEig.lambda > -Eps
    IN /\ pc = "RETURNED" => ((SESyncResults.status = "GLOBAL_OPT") <=> certified)
       /\ certified =>
            /\ Finished
            /\ SESyncResults.status = "GLOBAL_OPT"
            /\ r = hist.lastEig.r
            /\ problem.relaxation_rank = hist.eigSnap.rank
            /\ hist.nescapes = hist.eigSnap.nescapes
            /\ Occurrences(hist.escapes_at, hist.lastEig.r) = 0
            /\ hist.nsolves = hist.eigSnap.nsolves

\* a run that was certified at its second rank, after one escape, has returned
C1_Witness ==
    /\ pc = "RETURNED"
    /\ SESyncResults.status = "GLOBAL_OPT"
    /\ hist.nsolves = 2
    /\ hist.nescapes = 1

(* C2, as claimed: a converged certificate with lambda_min >= -eps, the    *)
(* boundary lambda_min = -eps included, ends the run with GLOBAL_OPT at    *)
(* that rank and without an escape.                                        *)
C2_CertifiedAtBoundary ==
    (LastEigConverged /\ hist.lastEig.lambda >= -Eps) =>
        /\ Finished
        /\ SESyncResults.status = "GLOBAL_OPT"
        /\ r = hist.lastEig.r
        /\ hist.nescapes = hist.eigSnap.nescapes

(* C2, amended: a converged certificate with lambda_min > -eps (strictly)  *)
(* ends the run with GLOBAL_OPT at that rank and without an escape; at the *)
(* boundary lambda_min = -eps the point counts as a saddle: escape_saddle  *)
(* is invoked at that rank and the status is not GLOBAL_OPT.               *)
C2_CertifiedStrictly ==
    /\ (LastEigConverged /\ hist.lastEig.lambda > -Eps) =>
          /\ Finished
          /\ SESyncResults.status = "GLOBAL_OPT"
          /\ hist.nescapes = hist.eigSnap.nescapes
    /\ (LastEigConverged /\ hist.lastEig.lambda = -Eps) =>
          /\ SESyncResults.status # "GLOBAL_OPT"
          /\ hist.nescapes = hist.eigSnap.nescapes + 1
          /\ hist.escArgs.r = hist.lastEig.r
          /\ hist.escArgs.lambda = -Eps

\* the certificate converged with lambda_min = -eps and the escape it led to has returned
C2_Witness ==
    /\ LastEigConverged
    /\ hist.lastEig.lambda = -Eps
    /\ hist.escArgs.r = hist.lastEig.r
    /\ hist.escArgs.ret \in {"true", "false"}

(* C3: once the minimum eigenvalue routine has failed to converge the      *)
(* status is EIG_IMPRECISION and the loop is over: no further certificate  *)
(* computation, solver call or escape and no change of the problem's rank; *)
(* a failure of the first certificate computation comes after exactly one  *)
(* solver invocation, at rank r0.                                          *)
C3_EigFailureIsFinal ==
    hist.eigFail.happened =>
        /\ Finished
        /\ SESyncResults.status = "EIG_IMPRECISION"
        /\ ~hist.lastEig.conv
        /\ hist.neigs = hist.eigFail.neigs
        /\ hist.nsolves = hist.eigFail.nsolves
        /\ hist.nescapes = hist.eigFail.nescapes
        /\ problem.relaxation_rank = hist.eigFail.rank
        /\ hist.eigFail.neigs = 1 => (hist.nsolves = 1 /\ hist.eigFail.r = options.r0)

\* the first certificate computation failed to converge and the run has returned
C3_Witness ==
    /\ pc = "RETURNED"
    /\ hist.eigFail.happened
    /\ hist.eigFail.neigs = 1

(* C4: a converged certificate with lambda_min <= -eps at rank r is        *)
(* followed by exactly one invocation of escape_saddle at r, on the solver *)
(* output of rank r with that lambda_min and v_min; when the escape has    *)
(* returned false the status is SADDLE_POINT, no solver or certificate     *)
(* call follows, Yopt is still the solver output of rank r, and Yplus and  *)
(* the iterate Y are as they were when the escape was invoked.             *)
C4_EscapeOnceAndItsFailure ==
    /\ (LastEigConverged /\ hist.lastEig.lambda <= -Eps) =>
          /\ hist.nescapes = hist.eigSnap.nescapes + 1
          /\ Occurrences(hist.escapes_at, hist.lastEig.r) = 1
          /\ hist.escArgs.r = hist.lastEig.r
          /\ hist.escArgs.Y = hist.lastEig.arg
          /\ hist.escArgs.Y.kind = "TNT"
          /\ hist.escArgs.Y.at = hist.eigSnap.nsolves
          /\ hist.nsolves = hist.eigSnap.nsolves => hist.escArgs.Y = hist.lastTNT
          /\ hist.escArgs.lambda = hist.lastEig.lambda
          /\ hist.escArgs.v = hist.lastEig.v
    /\ hist.escArgs.ret = "false" =>
          /\ Finished
          /\ SESyncResults.status = "SADDLE_POINT"
          /\ hist.nsolves = hist.escSnap.nsolves
          /\ hist.neigs = hist.escSnap.neigs
          /\ hist.nescapes = hist.escSnap.nescapes
          /\ SESyncResults.Yopt = hist.escArgs.Y
          /\ SESyncResults.Yopt = hist.lastTNT
          /\ SESyncResults.Yopt.rows = hist.escArgs.r
          /\ Yplus = EmptyMatrix
          /\ Y = hist.escSnap.Y

\* an escape at the second rank has failed and the run has returned
C4_Witness ==
    /\ pc = "RETURNED"
    /\ hist.escArgs.ret = "false"
    /\ hist.nsolves = 2

(* C5, as claimed: a converged certificate with lambda_min <= -eps at      *)
(* rank rmax is followed by no escape at rmax and the run returns          *)
(* RS_ITER_LIMIT.                                                          *)
C5_NoEscapeAtRmax ==
    (LastEigConverged /\ hist.lastEig.lambda <= -Eps /\ hist.lastEig.r = options.rmax) =>
        /\ hist.nescapes = hist.eigSnap.nescapes
        /\ Occurrences(hist.escapes_at, options.rmax) = 0
        /\ pc = "RETURNED" => SESyncResults.status = "RS_ITER_LIMIT"

(* C6, as claimed: the solver is never invoked at a rank above rmax, and   *)
(* the problem's rank is never set to a value above rmax.                  *)
C6_RankNeverSetAboveRmax ==
    /\ [](\A i \in DOMAIN hist.solve_ranks : ULe(hist.solve_ranks[i], options.rmax))
    /\ [][problem'.relaxation_rank # problem.relaxation_rank
            => ULe(problem'.relaxation_rank, options.rmax)]_vars

(* C7, as claimed: a run that returns RS_ITER_LIMIT has invoked the solver *)
(* at least once and its Yopt is the output of the last invocation.        *)
C7_LimitReturnsLastSolverOutput ==
    (pc = "RETURNED" /\ SESyncResults.status = "RS_ITER_LIMIT") =>
        /\ hist.nsolves >= 1
        /\ SESyncResults.Yopt = hist.lastTNT
        /\ SESyncResults.Yopt.kind = "TNT"

(* C8, as claimed: when the escape at rank r has failed, the problem's     *)
(* rank is still r, the number of rows of Yopt, at rounding and at return. *)
C8_RankUnchangedByFailedEscape ==
    hist.escArgs.ret = "false" =>
        /\ problem.relaxation_rank = hist.escArgs.r
        /\ problem.relaxation_rank = SESyncResults.Yopt.rows
        /\ hist.nrounds = 1 => hist.roundRank = hist.escArgs.r

\* the successful escapes whose next rank was then solved
EscapesFollowedBySolve ==
    {i \in DOMAIN hist.esc_success_at :
        \E j \in DOMAIN hist.solve_ranks :
            j > 1 /\ hist.solve_ranks[j] = UInc(hist.esc_success_at[i])}

(* C9, as claimed: the solver is invoked at the ranks r0, r0 + 1, ... in   *)
(* this order, r never decreases and grows by one at each successful       *)
(* escape, and a finished run has made one solver invocation more than it  *)
(* has successful escapes followed by a solve.                             *)
C9_RanksAscendAndCount ==
    /\ \A i \in DOMAIN hist.solve_ranks : hist.solve_ranks[i] = options.r0 + (i - 1)
    /\ \A i, j \in DOMAIN hist.solve_ranks :
          i < j => (ULe(hist.solve_ranks[i], hist.solve_ranks[j])
                    /\ hist.solve_ranks[i] # hist.solve_ranks[j])
    /\ Len(hist.esc_success_at) <= Len(hist.solve_ranks)
    /\ pc = "RETURNED" => hist.nsolves = Cardinality(EscapesFollowedBySolve) + 1

(* C10, as claimed: a run that has returned has rounded exactly once, no   *)
(* run rounds before its loop is over, and the rounded matrix is the       *)
(* returned Yopt under the final status, the output of the most recent     *)
(* solver invocation.                                                      *)
C10_RoundedOnceTheLastSolverOutput ==
    /\ pc # "RETURNED" => hist.nrounds = 0
    /\ pc = "RETURNED" =>
          /\ hist.nrounds = 1
          /\ hist.roundArg = SESyncResults.Yopt
          /\ hist.roundStatus = SESyncResults.status
          /\ SESyncResults.xhat = round_solution(SESyncResults.Yopt)
          /\ hist.roundArg = hist.lastTNT
          /\ hist.roundArg.kind = "TNT"

----------------------------------------------------------------------------
(* escape_saddle *)

InEscape == pc \in {"LINE_SEARCH", "ESCAPE_RETURN"}

\* the point escape_saddle was called on, and its objective value F(Y)
SaddlePoint == hist.escArgs.Y

\* a trial satisfies both conditions of acceptance, strictly
Satisfies(t) ==
    /\ evaluate_objective(t) < evaluate_objective(SaddlePoint)
    /\ Riemannian_gradient_norm(t) > options.grad_norm_tol

\* C11: escape_saddle returns success exactly when some trial of the
\* schedule satisfies both objective(Ytest) < F(Y) and gradnorm(Ytest) >
\* grad_norm_tol, strictly; the Yplus returned is the first such trial, the
\* trials are evaluated in schedule order, none is evaluated after an
\* accepted one, and a trial satisfying one condition only is never returned.
C11_FirstSatisfyingTrialReturned ==
    /\ [](InEscape =>
            /\ \A i \in 1..Len(esc.trials) : esc.trials[i].k = i
            /\ \A i \in 1..(Len(esc.trials) - 1) : ~Satisfies(esc.trials[i])
            /\ esc.escape_success <=>
                   \E i \in 1..Len(esc.trials) : Satisfies(esc.trials[i])
            /\ esc.escape_success =>
                   esc.Ytest = esc.trials[Len(esc.trials)])
    /\ [](hist.escArgs.ret = "true" => Yplus.kind = "trial" /\ Satisfies(Yplus))
    /\ [](hist.escArgs.ret = "false" => Yplus = EmptyMatrix)
    /\ [][pc = "ESCAPE_RETURN" =>
            /\ (hist'.escArgs.ret = "true") <=> esc.escape_success
            /\ (hist'.escArgs.ret = "false") <=> ~esc.escape_success
            /\ esc.escape_success => Yplus' = esc.Ytest]_vars

\* an escape accepting its second trial after a first one that lowered the
\* objective but whose gradient norm did not exceed the tolerance
C11_Witness ==
    /\ pc = "ESCAPE_RETURN"
    /\ esc.escape_success
    /\ Len(esc.trials) = 2
    /\ evaluate_objective(esc.trials[1]) < evaluate_objective(SaddlePoint)
    /\ Riemannian_gradient_norm(esc.trials[1]) = options.grad_norm_tol
    /\ Satisfies(esc.Ytest)

RECURSIVE Pow2(_)
Pow2(n) == IF n = 0 THEN 1 ELSE 2 * Pow2(n - 1)

\* the step length of trial k of the running escape: alpha0 / 2^k, with
\* alpha0 = 200 * grad_norm_tol / |lambda_min|, in units of 1e-6
ScheduledStep(k) ==
    [num |-> options.grad_norm_tol, den |-> Abs(hist.escArgs.lambda) * Pow2(k)]

\* a finite step length strictly below the floor 1e-6, at most the floor,
\* and above half the floor
BelowFloor(alpha) == alpha.den # 0 /\ alpha.num < alpha.den
AtMostFloor(alpha) == alpha.den # 0 /\ alpha.num <= alpha.den
AboveHalfFloor(alpha) == alpha.den = 0 \/ 2 * alpha.num > alpha.den
NotANumber(alpha) == alpha.den = 0 /\ alpha.num = 0

\* the step follows the one halving schedule from alpha0, and a failure is
\* reported only with the step at or below the floor (or not a number)
HalvingSchedule ==
    InEscape =>
        /\ esc.alpha = ScheduledStep(esc.ntrials)
        /\ (pc = "ESCAPE_RETURN" /\ ~esc.escape_success) =>
               AtMostFloor(esc.alpha) \/ NotANumber(esc.alpha)

\* C12 as stated: the step starts at alpha0 = 200 * grad_norm_tol /
\* |lambda_min| and is halved along one schedule, failure is reported once
\* it has fallen below the floor 1e-6 without acceptance, and no trial whose
\* step is below 1e-6 is ever evaluated and accepted (looked at for a
\* positive tolerance, where every step is positive).
C12_NoTrialBelowFloorAccepted ==
    options.grad_norm_tol > 0 =>
        /\ HalvingSchedule
        /\ (InEscape /\ esc.escape_success) => ~BelowFloor(esc.alpha)

\* C12, amended: the step starts at alpha0 and is halved along one schedule;
\* the floor is tested after the trial, so the first trial is evaluated at
\* alpha0 / 2 whatever its step, a later trial is evaluated only when the
\* step before it was above the floor (its own step is above half the
\* floor), and the search goes on only above the floor without acceptance;
\* failure is reported once the step is at or below the floor.
C12_FloorTestedAfterTheTrial ==
    /\ HalvingSchedule
    /\ (InEscape /\ esc.ntrials > 1) => AboveHalfFloor(esc.alpha)
    /\ (pc = "LINE_SEARCH" /\ esc.ntrials > 0) =>
           ~esc.escape_success /\ ~AtMostFloor(esc.alpha) /\ ~NotANumber(esc.alpha)

\* a second trial evaluated at a step below the floor, and accepted
C12_Witness ==
    /\ pc = "ESCAPE_RETURN"
    /\ esc.ntrials = 2
    /\ BelowFloor(esc.alpha)
    /\ esc.escape_success
    /\ Satisfies(esc.Ytest)
    /\ esc.alpha = [num |-> 3, den |-> 4]

----------------------------------------------------------------------------
(* The state machine of the controller *)

\* the order solve(r), certificate(r), escape(r) at each rank, and what a
\* certificate and an escape are computed on
SolveCertifyEscapeOrder ==
    /\ pc = "MIN_EIG" =>
           /\ hist.nsolves = hist.neigs + 1
           /\ hist.solve_ranks[hist.nsolves] = r
           /\ SESyncResults.Yopt = hist.lastTNT
    /\ pc # "MIN_EIG" => hist.neigs = hist.nsolves
    /\ hist.neigs > 0 =>
           /\ hist.eigSnap.nsolves = hist.neigs
           /\ hist.lastEig.arg.kind = "TNT"
           /\ hist.lastEig.arg.at = hist.neigs
           /\ hist.lastEig.r = hist.solve_ranks[hist.neigs]
    /\ hist.nescapes > 0 =>
           /\ hist.escSnap.neigs = hist.escSnap.nsolves
           /\ hist.escArgs.Y.kind = "TNT"
           /\ hist.escArgs.Y.at = hist.escSnap.nsolves
           /\ hist.escArgs.r = hist.solve_ranks[hist.escSnap.nsolves]
           /\ hist.escArgs.lambda <= -Eps
    /\ InEscape =>
           /\ LastEigConverged
           /\ hist.escSnap.neigs = hist.neigs
           /\ hist.lastEig.lambda = hist.escArgs.lambda
           /\ hist.lastEig.r = r
    /\ \A i \in DOMAIN hist.solve_ranks :
           i > 1 => /\ hist.solve_ranks[i] = UInc(hist.solve_ranks[i - 1])
                    /\ hist.esc_success_at[i - 1] = hist.solve_ranks[i - 1]

\* the escape is the last operation of the loop so far
EscapeWasLast == hist.nescapes > 0 /\ hist.escSnap.nsolves = hist.nsolves

\* C14: at each rank the order is solve, certificate, optional escape; a
\* certificate is computed only on the output of the solver call just before
\* it at the same rank; an escape is invoked only after a converged
\* certificate with lambda_min <= -eps at that rank; and after an escape
\* comes either a solve at rank r + 1 or the end of the run with the status
\* of a failed escape.
C14_OnlyStatedTransitions ==
    /\ SolveCertifyEscapeOrder
    /\ (Finished /\ EscapeWasLast) =>
           /\ hist.escArgs.ret = "false"
           /\ SESyncResults.status = "SADDLE_POINT"

----------------------------------------------------------------------------
(* Objective values along the staircase *)

\* the last solve was seeded by the last escape
SolvedAfterEscape == hist.nescapes > 0 /\ hist.nsolves = hist.escSnap.nsolves + 1

\* C15: with a solver that never returns an objective value above that of
\* its seed, the solve at rank r + 1 is seeded with an escape point whose
\* objective value is strictly below that of the solver's output at rank r,
\* and SDPval at rank r + 1 is strictly below SDPval at rank r.
C15_SDPvalStrictlyDecreases ==
    /\ (hist.escArgs.ret = "true") =>
           /\ Y.kind = "trial"
           /\ evaluate_objective(Y) < evaluate_objective(hist.escArgs.Y)
    /\ SolvedAfterEscape =>
           /\ hist.escArgs.Y.kind = "TNT"
           /\ hist.escArgs.Y.at = hist.nsolves - 1
           /\ hist.solve_ranks[hist.nsolves] = UInc(hist.escArgs.r)
           /\ SESyncResults.SDPval <= evaluate_objective(Y)
           /\ SESyncResults.SDPval < evaluate_objective(hist.escArgs.Y)
           /\ SESyncResults.SDPval = evaluate_objective(hist.lastTNT)

\* a second rank solved, with a value below that of the first
C15_Witness ==
    /\ SolvedAfterEscape
    /\ hist.solve_ranks = <<1, 2>>
    /\ evaluate_objective(hist.escArgs.Y) = MaxObjective
    /\ SESyncResults.SDPval = 0

----------------------------------------------------------------------------
(* The problem's rank and the seed at each solve *)

\* C16: at every solver invocation at level r the problem's relaxation rank
\* is r and the seed Y has r rows; before the first solve the rank is the r0
\* set at construction and has not been written, and the rank of each later
\* level has been written exactly once before that level's solve.
C16_RankAndSeedMatchLevel ==
    /\ pc = "TNT" =>
           /\ problem.relaxation_rank = r
           /\ Y.rows = r
           /\ hist.rank_writes = hist.nsolves
    /\ (hist.nsolves = 0 /\ ~Finished) =>
           /\ hist.rank_writes = 0
           /\ problem.relaxation_rank = options.r0
    /\ \A i \in DOMAIN hist.solve_ranks :
           hist.solve_problem_ranks[i] = hist.solve_ranks[i]
    /\ pc = "MIN_EIG" => hist.lastTNT.rows = r

\* the solver about to be invoked at the second level, seeded by an escape
C16_Witness ==
    /\ pc = "TNT"
    /\ hist.nsolves = 1
    /\ r = UInc(options.r0)
    /\ problem.relaxation_rank = r
    /\ hist.rank_writes = 1
    /\ Y.kind = "trial"
    /\ Y.rows = r

----------------------------------------------------------------------------
(* Termination of the staircase *)

\* n solver invocations are within max(0, rmax - r0 + 1), on unsigned int
WithinRankBudget(n) ==
    IF ULe(options.r0, options.rmax)
    THEN n = 0 \/ ULe(UDec(n), options.rmax - options.r0)
    ELSE n = 0

\* C17: for every r0 and rmax of unsigned int, the largest value included,
\* the loop ends at the first certified optimum, failed eigenvalue
\* computation, failed escape or rank above rmax, after no more than
\* max(0, rmax - r0 + 1) solver invocations, and SESync returns one of the
\* four statuses, RS_ITER_LIMIT exactly when the loop ended without a break.
C17_EndsWithinRankBudget ==
    /\ WithinRankBudget(hist.nsolves)
    /\ pc # "ABORTED"
    /\ SESyncResults.status \in Statuses
    /\ Finished =>
           /\ (SESyncResults.status = "RS_ITER_LIMIT") <=> ~LoopCondition
           /\ (SESyncResults.status = "GLOBAL_OPT") =>
                  LastEigConverged /\ hist.lastEig.lambda > -Eps
           /\ (SESyncResults.status = "EIG_IMPRECISION") => ~LastEigConverged
           /\ (SESyncResults.status = "SADDLE_POINT") => hist.escArgs.ret = "false"
           /\ (SESyncResults.status # "RS_ITER_LIMIT") => hist.neigs = hist.nsolves
           /\ (SESyncResults.status # "RS_ITER_LIMIT") => hist.eigSnap.nsolves = hist.nsolves

----------------------------------------------------------------------------
(* Termination of the line search *)

\* alpha0 of the running escape is finite and positive
FinitePositiveAlpha0 == options.grad_norm_tol > 0 /\ hist.escArgs.lambda # 0

\* ceil(log2(alpha0 / 1e-6)) when alpha0 >= 1e-6, and 0 below
CeilLog2Alpha0 ==
    LET alpha0 == ScheduledStep(0)
    IN CHOOSE n \in 0..alpha0.num :
          /\ alpha0.num <= alpha0.den * Pow2(n)
          /\ n > 0 => alpha0.num > alpha0.den * Pow2(n - 1)

MaxOf(a, b) == IF a >= b THEN a ELSE b

\* C18: with a finite positive alpha0 the backtracking loop ends: at least
\* one trial is evaluated, trial k at the step alpha0 / 2^k, no trial follows
\* one whose step is at or below 1e-6, and there are no more than
\* max(1, ceil(log2(alpha0 / 1e-6))) trials.
C18_LineSearchEnds ==
    /\ []((InEscape /\ FinitePositiveAlpha0) =>
             /\ \A k \in 1..esc.ntrials : esc.steps[k] = ScheduledStep(k)
             /\ Len(esc.steps) = esc.ntrials
             /\ \A k \in 1..(esc.ntrials - 1) : ~AtMostFloor(esc.steps[k])
             /\ esc.ntrials <= MaxOf(1, CeilLog2Alpha0)
             /\ pc = "ESCAPE_RETURN" => esc.ntrials >= 1)
    /\ ((pc = "LINE_SEARCH" /\ FinitePositiveAlpha0) ~> (pc = "ESCAPE_RETURN"))

\* a search from alpha0 = 3e-6 that has used both trials of its bound, the
\* second below the floor, without accepting
C18_Witness ==
    /\ pc = "ESCAPE_RETURN"
    /\ FinitePositiveAlpha0
    /\ ~esc.escape_success
    /\ esc.ntrials = 2
    /\ CeilLog2Alpha0 = 2
    /\ esc.steps = <<[num |-> 3, den |-> 2], [num |-> 3, den |-> 4]>>

----------------------------------------------------------------------------
(* The traces of the result *)

ConvergedCertificates == hist.neigs - (IF hist.eigFail.happened THEN 1 ELSE 0)

TraceLengths(res) ==
    <<res.function_values, res.gradient_norms, res.elapsed_optimization_times,
      res.minimum_eigenvalues, res.minimum_eigenvalue_computation_times>>

\* C19: the traces only grow; at return function_values, gradient_norms and
\* elapsed_optimization_times have one entry per solver invocation, and
\* minimum_eigenvalues and minimum_eigenvalue_computation_times one entry
\* per converged certificate computation: as many as function_values for
\* GLOBAL_OPT, SADDLE_POINT and RS_ITER_LIMIT, one fewer for EIG_IMPRECISION.
C19_TracesAligned ==
    /\ [](pc = "RETURNED" =>
            /\ SESyncResults.function_values = hist.nsolves
            /\ SESyncResults.gradient_norms = hist.nsolves
            /\ SESyncResults.elapsed_optimization_times = hist.nsolves
            /\ SESyncResults.minimum_eigenvalues = ConvergedCertificates
            /\ SESyncResults.minimum_eigenvalue_computation_times = ConvergedCertificates
            /\ (SESyncResults.status \in {"GLOBAL_OPT", "SADDLE_POINT", "RS_ITER_LIMIT"}) =>
                   SESyncResults.minimum_eigenvalues = SESyncResults.function_values
            /\ (SESyncResults.status = "EIG_IMPRECISION") =>
                   SESyncResults.minimum_eigenvalues = SESyncResults.function_values - 1)
    /\ [][\A i \in 1..5 :
            /\ TraceLengths(SESyncResults')[i] >= TraceLengths(SESyncResults)[i]
            /\ TraceLengths(SESyncResults')[i] <= TraceLengths(SESyncResults)[i] + 1]_vars

\* a run returned after two solves whose second eigenvalue computation did
\* not converge: two function values, one eigenvalue
C19_Witness ==
    /\ pc = "RETURNED"
    /\ SESyncResults.status = "EIG_IMPRECISION"
    /\ SESyncResults.function_values = 2
    /\ SESyncResults.minimum_eigenvalues = 1

----------------------------------------------------------------------------
(* The initial iterate *)

Y0Given == Y0.kind # "empty"

\* no escape has replaced the seed yet: Y is the initial iterate
SeedIsInitial == pc # "INITIALIZATION" /\ Len(hist.esc_success_at) = 0

\* C20: a non-empty Y0 is the seed of the first solve as it is, and neither
\* chordal_initialization nor random_sample is called; with an empty Y0
\* chordal_initialization is called exactly once if
\* use_chordal_initialization is set, else random_sample exactly once;
\* exactly one source is used, before the first solver invocation.
C20_InitialIterateByPrecedence ==
    /\ pc = "INITIALIZATION" =>
           /\ hist.init = "none"
           /\ hist.nsolves = 0
           /\ hist.chordal_calls = 0 /\ hist.random_calls = 0
    /\ pc # "INITIALIZATION" =>
           /\ hist.init \in {"Y0", "chordal", "random"}
           /\ Y0Given =>
                  /\ hist.init = "Y0"
                  /\ hist.chordal_calls = 0 /\ hist.random_calls = 0
           /\ (~Y0Given /\ options.use_chordal_initialization) =>
                  /\ hist.init = "chordal"
                  /\ hist.chordal_calls = 1 /\ hist.random_calls = 0
           /\ (~Y0Given /\ ~options.use_chordal_initialization) =>
                  /\ hist.init = "random"
                  /\ hist.chordal_calls = 0 /\ hist.random_calls = 1
    /\ SeedIsInitial =>
           /\ Y.kind = hist.init
           /\ Y0Given => Y = Y0

\* the first solve made from a given Y0 although the chordal flag is set
C20_Witness ==
    /\ pc = "MIN_EIG"
    /\ hist.nsolves = 1
    /\ Y0Given
    /\ options.use_chordal_initialization
    /\ Y = Y0
    /\ hist.init = "Y0"

====
